---- MODULE Spec2Model ----
(***************************************************************************)
(* Coin ledger engine of coinbot: the spreadsheet decoder, the             *)
(* reconciliation against the persisted snapshot (DataBase.align), the     *)
(* periodic reload thread (CoinBot.reload_data) and the staging            *)
(* transaction (CoinBot.stage_coin), as a state machine.                   *)
(*                                                                         *)
(* Two threads act on the ledger: the threading.Timer thread that runs     *)
(* reload_data, and the dispatcher thread that runs the message and        *)
(* callback handlers one after the other.  A step of the model is what one *)
(* thread does between two dereferences of self.db or two accesses to the  *)
(* snapshot file.                                                          *)
(***************************************************************************)
EXTENDS Integers, Sequences, FiniteSets, TLC

VARIABLES
    sheet,       \* the upstream document: fill colour of every possible cell
    etag,        \* the upstream document's Etag header
    today,       \* date.today()
    proc,        \* "down" before CoinBot.__init__ has returned, then "up"
    file_etag,   \* CoinBot.file_etag
    filepath,    \* content of the downloaded coins.xlsm
    db,          \* CoinBot.db.df, the ledger the handlers read
    csv,         \* content of data/latest_collection.csv
    newdf,       \* DataBase.df of the object reload_data is constructing
    reload,      \* the timer thread's position inside reload_data
    timers,      \* number of pending threading.Timer objects
    prefs,       \* CoinBot.user_prefs[user_id] of the one user
    stage,       \* the dispatcher thread's position inside stage_coin
    latest_csv_path,  \* DataBase.latest_csv_path, as main or another caller set it
    out          \* the report the dispatcher thread is sending

vars == <<sheet, etag, today, proc, file_etag, filepath, db, csv, newdf,
          reload, timers, prefs, stage, latest_csv_path, out>>

\* pd.NA / None / NaN
NA == "<NA>"

\* Number of edits of the upstream document in one behaviour.
MaxEdits == 1
\* Last day of a behaviour (days are 1..MaxDay).
MaxDay == 2
\* Largest number of coins of a group whose ratio is marked on its own.
MaxTotal == 20
\* Largest number of year markers of a block of the EU sheet.
MaxYears == 2
\* Largest cell value of the amount cells, in units of 250.
MaxAmount == 12

-----------------------------------------------------------------------------
(* The document.  Cells holds, in decoder order (EU sheet, Deutschland      *)
(* sheet, Sondermuenzen sheet), the cells the sheets can hold; the free     *)
(* list may repeat a coin (cells 2 and 3) and may list a German coin        *)
(* without mint mark (cell 4).                                              *)

Cells == <<
    [Country |-> "France",  Year |-> 1999, CoinValue |-> "1 Cent",
     Source |-> NA,  Special |-> FALSE, Name |-> NA],
    [Country |-> "France",  Year |-> 2012, CoinValue |-> "2 euro",
     Source |-> NA,  Special |-> TRUE,  Name |-> "TYE"],
    [Country |-> "France",  Year |-> 2012, CoinValue |-> "2 euro",
     Source |-> NA,  Special |-> TRUE,  Name |-> "TYE"],
    [Country |-> "Germany", Year |-> 2006, CoinValue |-> "2 euro",
     Source |-> NA,  Special |-> TRUE,  Name |-> "Holstentor"] >>

NumCells == Len(Cells)

Absent == "absent"
Black == "1"
White == "00000000"
Green == "FF00B050"
Red == "FFFF0000"
Fills == {Black, White, Green, Red}

Names == {"Alice"}

\* metadata.colors and DataBase.cell_status
cell_status(fill_color) ==
    CASE fill_color = Black -> "unavailable"
      [] fill_color = White -> "missing"
      [] fill_color = Green -> "collected"
      [] OTHER -> "unknown"

\* str.lower on the strings of the document
Lower(x) ==
    CASE x = "France"  -> "france"
      [] x = "Germany" -> "germany"
      [] x = "1 Cent"  -> "1 cent"
      [] OTHER -> x

RECURSIVE Present(_, _)
\* the cells of doc that hold a coin, in sheet order, from cell i on
Present(doc, i) ==
    IF i > NumCells THEN <<>>
    ELSE IF doc[i] = Absent THEN Present(doc, i + 1)
         ELSE <<i>> \o Present(doc, i + 1)

\* setup_eu_dataframe, setup_ger_dataframe, setup_sonder_dataframe, and the
\* concatenation and case normalisation of DataBase.__init__
DecodeRow(doc, i) ==
    [Country   |-> Lower(Cells[i].Country),
     Year      |-> Cells[i].Year,
     CoinValue |-> Lower(Cells[i].CoinValue),
     Source    |-> Lower(Cells[i].Source),
     Special   |-> Cells[i].Special,
     Name      |-> Cells[i].Name,
     Status    |-> cell_status(doc[i])]

Decode(doc) ==
    LET p == Present(doc, 1) IN [j \in 1..Len(p) |-> DecodeRow(doc, p[j])]

-----------------------------------------------------------------------------
(* The snapshot file: DataFrame.to_csv and pd.read_csv(...).fillna(pd.NA).  *)
(* A missing value is written as the empty field, a boolean as True/False,  *)
(* a number in decimal.                                                     *)

\* Python's True, as the Staged column holds it next to pd.NA
PyTrue == "True"

Years == {Cells[i].Year : i \in 1..NumCells}

CsvStr(x) == IF x = NA THEN "" ELSE x
CsvBool(b) == IF b THEN "True" ELSE "False"

CsvText(s) == IF s = "" THEN NA ELSE s
CsvYear(s) == CHOOSE y \in Years : ToString(y) = s

to_csv(df) ==
    [i \in 1..Len(df) |->
        [Country   |-> CsvStr(df[i].Country),
         Year      |-> ToString(df[i].Year),
         CoinValue |-> CsvStr(df[i].CoinValue),
         Source    |-> CsvStr(df[i].Source),
         Special   |-> CsvBool(df[i].Special),
         Name      |-> CsvStr(df[i].Name),
         Status    |-> CsvStr(df[i].Status),
         Staged    |-> CsvStr(df[i].Staged),
         Collector |-> CsvStr(df[i].Collector),
         Created   |-> CsvStr(df[i].Created),
         Collected |-> CsvStr(df[i].Collected)]]

read_csv(file) ==
    [i \in 1..Len(file) |->
        [Country   |-> CsvText(file[i].Country),
         Year      |-> CsvYear(file[i].Year),
         CoinValue |-> CsvText(file[i].CoinValue),
         Source    |-> CsvText(file[i].Source),
         Special   |-> (file[i].Special = "True"),
         Name      |-> CsvText(file[i].Name),
         Status    |-> CsvText(file[i].Status),
         Staged    |-> CsvText(file[i].Staged),
         Collector |-> CsvText(file[i].Collector),
         Created   |-> CsvText(file[i].Created),
         Collected |-> CsvText(file[i].Collected)]]

\* str(date.today())
DateStr(d) == ToString(d)

\* The file save_df writes, coinbot/../data/latest_collection.csv (the path
\* main passes as latest_csv_path is the same file), and another path a
\* caller of CoinBot can pass.  No statement of the program writes to a path
\* other than save_df's, so the file at OtherPath stays as it was when the
\* process started: a snapshot with no rows.
SavePath == "data/latest_collection.csv"
OtherPath == "backup/latest_collection.csv"
Paths == {SavePath, OtherPath}
OtherFile == <<>>

-----------------------------------------------------------------------------
(* DataBase.align                                                           *)

\* Series == scalar of pandas: never true when either side is missing
PdEq(a, b) == a # NA /\ b # NA /\ a = b

\* the row filter of align, lines 60-70
AlignMatch(t, r) ==
    /\ PdEq(t.Country, r.Country)
    /\ t.Year = r.Year
    /\ PdEq(t.CoinValue, r.CoinValue)
    /\ t.Special = r.Special
    /\ ((t.Source = NA /\ r.Source = NA) \/ PdEq(t.Source, r.Source))
    /\ ((t.Name = NA /\ r.Name = NA) \/ PdEq(t.Name, r.Name))

Matches(latest_df, r) ==
    SelectSeq(latest_df, LAMBDA t : AlignMatch(t, r))

\* the four df.insert calls, lines 52-55
InsertColumns(r) ==
    [Country |-> r.Country, Year |-> r.Year, CoinValue |-> r.CoinValue,
     Source |-> r.Source, Special |-> r.Special, Name |-> r.Name,
     Status |-> r.Status,
     Staged |-> NA, Collector |-> NA, Created |-> NA, Collected |-> NA]

\* align that raises on no change of status
Diverges_Never(r, old) == FALSE

\* align that raises only when a collected coin is no longer collected
Diverges_OnlyFromCollected(r, old) ==
    /\ r.Status # old.Status
    /\ old.Status = "collected"

\* the else branch of lines 85-96: does the row raise ValueError
Diverges(r, old) ==
    /\ r.Status # old.Status
    /\ ~(r.Status = "collected" /\ old.Status # "collected")

\* align that dates the creation of a newly collected coin today
AlignRow_CreatedToday(r, latest_df, day) ==
    LET tdf == Matches(latest_df, r)
        row == InsertColumns(r)
    IN  IF Len(tdf) > 1 THEN row
        ELSE IF Len(tdf) = 0 THEN [row EXCEPT !.Created = DateStr(day)]
        ELSE IF r.Status = tdf[1].Status
             THEN [row EXCEPT !.Created = tdf[1].Created,
                              !.Collected = tdf[1].Collected]
             ELSE [row EXCEPT !.Created = DateStr(day),
                              !.Collected = DateStr(day)]

\* align that dates the collection of a coin that is new and collected
AlignRow_NewCollectedToday(r, latest_df, day) ==
    LET tdf == Matches(latest_df, r)
        row == InsertColumns(r)
    IN  IF Len(tdf) > 1 THEN row
        ELSE IF Len(tdf) = 0
             THEN [row EXCEPT !.Created = DateStr(day),
                              !.Collected = IF r.Status = "collected"
                                            THEN DateStr(day) ELSE NA]
        ELSE IF r.Status = tdf[1].Status
             THEN [row EXCEPT !.Created = tdf[1].Created,
                              !.Collected = tdf[1].Collected]
             ELSE [row EXCEPT !.Created = tdf[1].Created,
                              !.Collected = DateStr(day)]

\* align that dates every matched row today instead of carrying the date
AlignRow_NoCarry(r, latest_df, day) ==
    LET tdf == Matches(latest_df, r)
        row == InsertColumns(r)
    IN  IF Len(tdf) > 1 THEN row
        ELSE IF Len(tdf) = 0 THEN [row EXCEPT !.Created = DateStr(day)]
        ELSE IF r.Status = tdf[1].Status
             THEN [row EXCEPT !.Created = DateStr(day),
                              !.Collected = tdf[1].Collected]
             ELSE [row EXCEPT !.Created = tdf[1].Created,
                              !.Collected = DateStr(day)]

\* one iteration of the loop, lines 58-92, for a row that does not raise
AlignRow(r, latest_df, day) ==
    LET tdf == Matches(latest_df, r)
        row == InsertColumns(r)
    IN  IF Len(tdf) > 1 THEN row
        ELSE IF Len(tdf) = 0 THEN [row EXCEPT !.Created = DateStr(day)]
        ELSE IF r.Status = tdf[1].Status
             THEN [row EXCEPT !.Created = tdf[1].Created,
                              !.Collected = tdf[1].Collected]
             ELSE [row EXCEPT !.Created = tdf[1].Created,
                              !.Collected = DateStr(day)]

\* does the pass raise on row r
AlignRaises(r, latest_df) ==
    LET tdf == Matches(latest_df, r)
    IN  Len(tdf) = 1 /\ Diverges(r, tdf[1])

\* the whole pass: ok is FALSE when some row raises
align(df, file, day) ==
    LET latest_df == read_csv(file)
    IN  [ok |-> \A i \in 1..Len(df) : ~AlignRaises(df[i], latest_df),
         df |-> [i \in 1..Len(df) |-> AlignRow(df[i], latest_df, day)]]

-----------------------------------------------------------------------------
(* The environment: the owner of the collection rewrites a cell of the      *)
(* document (another colour, or the same colour with another amount) or     *)
(* fills in a cell that was empty, and days pass.  Only fetch_file reads    *)
(* the document and only align reads the date, so an edit or a midnight     *)
(* that falls inside a reload, a staging or the sending of a report is the  *)
(* same as one that falls before it: both are steps of the quiet states     *)
(* alone.                                                                   *)

Quiet ==
    /\ reload \in {"off", "wait"}
    /\ stage.pc = "idle"
    /\ out.kind = "none"

\* content of the file at self.latest_csv_path, which align reads (line 56)
LatestCsv == IF latest_csv_path = SavePath THEN csv ELSE OtherFile

EditSheet ==
    /\ Quiet
    /\ etag < MaxEdits
    /\ \E i \in 1..NumCells, fill \in Fills :
          sheet' = [sheet EXCEPT ![i] = fill]
    /\ etag' = etag + 1
    /\ UNCHANGED <<today, proc, file_etag, filepath, db, csv, newdf, reload,
                   timers, prefs, stage>>
    /\ UNCHANGED <<latest_csv_path, out>>

Tick ==
    /\ Quiet
    /\ today < MaxDay
    /\ today' = today + 1
    /\ UNCHANGED <<sheet, etag, proc, file_etag, filepath, db, csv, newdf,
                   reload, timers, prefs, stage>>
    /\ UNCHANGED <<latest_csv_path, out>>

-----------------------------------------------------------------------------
(* Start of the process: CoinBot.__init__ downloads the document and        *)
(* builds the first DataBase, CoinBot.run starts the timer.  Nothing else   *)
(* runs meanwhile.  A construction that raises is started again by main's   *)
(* loop and leaves no state behind, so only one that succeeds is a step.    *)

Construct ==
    /\ proc = "down"
    /\ LET a == align(Decode(sheet), LatestCsv, today)
       IN  /\ a.ok
           /\ db' = a.df
           /\ csv' = to_csv(a.df)
    /\ file_etag' = etag
    /\ filepath' = sheet
    /\ proc' = "up"
    /\ timers' = 1
    /\ reload' = "wait"
    /\ UNCHANGED <<sheet, etag, today, newdf, prefs, stage>>
    /\ UNCHANGED <<latest_csv_path, out>>

-----------------------------------------------------------------------------
(* The timer thread: reload_data.                                           *)

\* fetch_file: the response is a 200 with the document and its Etag
\* ("ok"), another status that carries the Etag ("status"), or requests.get
\* or the header lookup raises ("error").
Responses == {"ok", "status", "error"}

\* fetch_file that writes the document whenever the request succeeds
Updated_Always(response) == response = "ok"

\* did fetch_file download a new document
Updated(response) == response = "ok" /\ etag # file_etag

\* lines 146-152 and, when nothing was downloaded, line 154.  When
\* fetch_file raises, the except clause logs and leaves `updated` unbound:
\* line 152 raises UnboundLocalError and the thread ends before line 154.
ReloadFetch ==
    /\ proc = "up"
    /\ reload = "wait"
    /\ timers > 0
    /\ \E response \in Responses :
          IF response = "error"
          THEN /\ reload' = "fetch_raised"
               /\ timers' = timers - 1
               /\ UNCHANGED <<file_etag, filepath>>
          ELSE IF Updated(response)
          THEN /\ file_etag' = etag
               /\ filepath' = sheet
               /\ reload' = "fetched"
               /\ timers' = timers - 1
          ELSE /\ reload' = "wait"
               /\ timers' = timers
               /\ UNCHANGED <<file_etag, filepath>>
    /\ UNCHANGED <<sheet, etag, today, proc, db, csv, newdf, prefs, stage>>
    /\ UNCHANGED <<latest_csv_path, out>>

\* DataBase.__init__, lines 21-37
ReloadDecode ==
    /\ reload = "fetched"
    /\ newdf' = Decode(filepath)
    /\ reload' = "decoded"
    /\ UNCHANGED <<sheet, etag, today, proc, file_etag, filepath, db, csv,
                   timers, prefs, stage>>
    /\ UNCHANGED <<latest_csv_path, out>>

\* a reload that reconciles the ledger the handlers read
ReloadAlign_InPlace ==
    /\ reload = "decoded"
    /\ LET a == align(newdf, LatestCsv, today)
       IN  /\ db' = a.df
           /\ newdf' = a.df
           /\ reload' = IF a.ok THEN "aligned" ELSE "align_raised"
    /\ UNCHANGED <<sheet, etag, today, proc, file_etag, filepath, csv,
                   timers, prefs, stage>>
    /\ UNCHANGED <<latest_csv_path, out>>

\* DataBase.__init__, line 38.  The ValueError of align is caught nowhere:
\* the thread ends, no timer is started.
ReloadAlign ==
    /\ reload = "decoded"
    /\ LET a == align(newdf, LatestCsv, today)
       IN  IF a.ok
           THEN /\ newdf' = a.df
                /\ reload' = "aligned"
           ELSE /\ newdf' = newdf
                /\ reload' = "align_raised"
    /\ UNCHANGED <<sheet, etag, today, proc, file_etag, filepath, db, csv,
                   timers, prefs, stage>>
    /\ UNCHANGED <<latest_csv_path, out>>

\* DataBase.__init__, line 39
ReloadSave ==
    /\ reload = "aligned"
    /\ csv' = to_csv(newdf)
    /\ reload' = "saved"
    /\ UNCHANGED <<sheet, etag, today, proc, file_etag, filepath, db, newdf,
                   timers, prefs, stage>>
    /\ UNCHANGED <<latest_csv_path, out>>

\* lines 153-154: the assignment to self.db and the next timer
ReloadSwap ==
    /\ reload = "saved"
    /\ db' = newdf
    /\ newdf' = <<>>
    /\ timers' = timers + 1
    /\ reload' = "wait"
    /\ stage' = [stage EXCEPT !.raced = (stage.raced \/ stage.pc # "idle")]
    /\ UNCHANGED <<sheet, etag, today, proc, file_etag, filepath, csv, prefs>>
    /\ UNCHANGED <<latest_csv_path, out>>

-----------------------------------------------------------------------------
(* The dispatcher thread: handle_text_message and callback_query_handler.   *)
(* The handlers run one at a time, so a message is handled only while no    *)
(* stage_coin is under way.                                                 *)

NoCoin == <<>>

\* the tuple search_special_coin stores, lines 603-611
FoundCoin(r) ==
    <<[country |-> r.Country, year |-> r.Year, value |-> "2 euro",
       source |-> r.Source, is_special |-> TRUE, name |-> r.Name]>>

Texts == Names \cup {"Special"}

Messages ==
    [kind : {"name:", "language:"}, text : Names]
        \cup [kind : {"plain"}, text : Texts]

\* setup, lines 175-289: the session after the message, and whether the
\* message was part of the setup.  known is `user_id in self.user_prefs`;
\* the language itself only selects the translation of the replies.
setup(u, msg) ==
    IF msg.kind = "name:"
    THEN [handled |-> TRUE,
          prefs |-> [u EXCEPT !.known = TRUE, !.username = msg.text]]
    ELSE IF msg.kind = "language:"
    THEN [handled |-> TRUE, prefs |-> [u EXCEPT !.known = TRUE]]
    ELSE IF ~u.known
    THEN [handled |-> TRUE,
          prefs |-> [u EXCEPT !.known = TRUE, !.collecting_language = TRUE]]
    ELSE IF u.collecting_language
    THEN [handled |-> TRUE,
          prefs |-> [u EXCEPT !.collecting_language = FALSE,
                              !.collecting_username = TRUE]]
    ELSE IF u.collecting_username
    THEN [handled |-> TRUE,
          prefs |-> [u EXCEPT !.username = msg.text,
                              !.collecting_username = FALSE]]
    ELSE [handled |-> FALSE, prefs |-> u]

\* search_special_coin, lines 548-648, for a query whose first match is row
\* i of the ledger; index tells whether the vector storage was queried.
\* The coin is remembered before anything is sent.  The stage button is
\* sent before the rows are listed when the vector storage was queried, and
\* after them otherwise; report_series raises on the first listed row whose
\* Staged is pd.NA (line 475), so the button then follows only a staged row.
search_special_coin(u, df, i, index) ==
    IF ~index /\ Cardinality({j \in 1..Len(df) : df[j].Special}) = 1
    THEN u
    ELSE IF df[i].Status = "missing"
    THEN [u EXCEPT !.last_found_coin = FoundCoin(df[i]),
                   !.button = (u.button \/ index \/ df[i].Staged = PyTrue)]
    ELSE u

\* A text message; asked for a name, the user answers with one.
\* search_coin_in_db (lines 829-907) changes no state: for
\* a coin that is not staged, bool() of its Staged value raises (pd.NA) or
\* is true (NaN), so it never stores a coin nor sends a stage button.
handle_text_message ==
    /\ proc = "up"
    /\ stage.pc = "idle"
    /\ \E msg \in Messages :
          /\ prefs.known /\ prefs.collecting_username => msg.text \in Names
          /\ LET s == setup(prefs, msg)
             IN  IF s.handled \/ msg.text # "Special"
                 THEN prefs' = s.prefs
                 ELSE \E i \in 1..Len(db), index \in BOOLEAN :
                         /\ db[i].Special
                         /\ prefs' = search_special_coin(s.prefs, db, i, index)
    /\ UNCHANGED <<sheet, etag, today, proc, file_etag, filepath, db, csv,
                   newdf, reload, timers, stage>>
    /\ UNCHANGED <<latest_csv_path, out>>

\* stage_coin, lines 721-755: the index of the rows that match the coin
row_indexes(df, c) ==
    {i \in 1..Len(df) :
        /\ PdEq(df[i].Country, c.country)
        /\ IF c.is_special THEN PdEq(df[i].Name, c.name)
                           ELSE PdEq(df[i].CoinValue, c.value)
        /\ df[i].Year = c.year
        /\ \/ (df[i].Country = "germany" /\ PdEq(df[i].Source, c.source))
           \/ (df[i].Country # "germany" /\ df[i].Source = NA)
        /\ df[i].Special = c.is_special}

\* the dispatcher thread outside stage_coin; error is the exception the
\* last stage_coin ended with
Returned(error) ==
    [pc |-> "idle", idx |-> 0, raced |-> FALSE, prior |-> <<>>,
     error |-> error]

\* stage_coin that takes the first match when there are several
StageLookup_FirstMatch ==
    /\ proc = "up"
    /\ stage.pc = "idle"
    /\ prefs.button
    /\ LET rows == row_indexes(db, prefs.last_found_coin[1])
       IN  IF rows # {}
           THEN stage' = [pc |-> "looked",
                          idx |-> CHOOSE i \in rows : \A j \in rows : i <= j,
                          raced |-> FALSE, prior |-> db, error |-> ""]
           ELSE stage' = Returned("AssertionError")
    /\ UNCHANGED <<sheet, etag, today, proc, file_etag, filepath, db, csv,
                   newdf, reload, timers, prefs>>
    /\ UNCHANGED <<latest_csv_path, out>>

\* lines 717-756: the user presses a stage button of the chat
StageLookup ==
    /\ proc = "up"
    /\ stage.pc = "idle"
    /\ prefs.button
    /\ LET rows == row_indexes(db, prefs.last_found_coin[1])
       IN  IF Cardinality(rows) = 1
           THEN stage' = [pc |-> "looked", idx |-> CHOOSE i \in rows : TRUE,
                          raced |-> FALSE, prior |-> db, error |-> ""]
           ELSE stage' = Returned("AssertionError")
    /\ UNCHANGED <<sheet, etag, today, proc, file_etag, filepath, db, csv,
                   newdf, reload, timers, prefs>>
    /\ UNCHANGED <<latest_csv_path, out>>

\* line 758
StageSetStaged ==
    /\ stage.pc = "looked"
    /\ db' = [db EXCEPT ![stage.idx].Staged = PyTrue]
    /\ stage' = [stage EXCEPT !.pc = "staged"]
    /\ UNCHANGED <<sheet, etag, today, proc, file_etag, filepath, csv, newdf,
                   reload, timers, prefs>>
    /\ UNCHANGED <<latest_csv_path, out>>

\* lines 759-761: a session without "username" raises KeyError
StageSetCollector ==
    /\ stage.pc = "staged"
    /\ IF prefs.username = NA
       THEN /\ stage' = Returned("KeyError")
            /\ db' = db
       ELSE /\ db' = [db EXCEPT ![stage.idx].Collector = prefs.username]
            /\ stage' = [stage EXCEPT !.pc = "named"]
    /\ UNCHANGED <<sheet, etag, today, proc, file_etag, filepath, csv, newdf,
                   reload, timers, prefs>>
    /\ UNCHANGED <<latest_csv_path, out>>

\* line 763
StageSetStatus ==
    /\ stage.pc = "named"
    /\ db' = [db EXCEPT ![stage.idx].Status = "missing"]
    /\ stage' = [stage EXCEPT !.pc = "statused"]
    /\ UNCHANGED <<sheet, etag, today, proc, file_etag, filepath, csv, newdf,
                   reload, timers, prefs>>
    /\ UNCHANGED <<latest_csv_path, out>>

\* line 764
StageSave ==
    /\ stage.pc = "statused"
    /\ csv' = to_csv(db)
    /\ stage' = Returned("")
    /\ UNCHANGED <<sheet, etag, today, proc, file_etag, filepath, db, newdf,
                   reload, timers, prefs>>
    /\ UNCHANGED <<latest_csv_path, out>>

-----------------------------------------------------------------------------
(* Reports: the point-in-time view and the three reports built on it.  A    *)
(* ratio is kept as the pair of integers the code divides; a report is kept *)
(* as the set of its lines, each with the counts it prints.  An operator    *)
(* that is a method of DataBase returns, as df, what self.df holds after    *)
(* the call.  The dispatcher thread handles one request at a time: out is   *)
(* the report of the request it is handling, until return_message has sent  *)
(* it.                                                                      *)

Days == 1..MaxDay

\* the dates a user can ask for: the days of the behaviour and a day before
RequestDates == 0..MaxDay

\* no date given (None), as against <<d>>
NoDate == <<>>

\* a word of a request that is no date in the format %d.%m.%Y
BadToken == -1

\* datetime.strptime(word, "%d.%m.%Y"): <<>> when it raises ValueError
strptime(word) == IF word = BadToken THEN <<>> ELSE <<word>>

\* pd.to_datetime(..., errors="coerce"): <<>> is NaT
to_datetime(s) ==
    IF s = NA THEN <<>> ELSE <<CHOOSE d \in Days : ToString(d) = s>>

\* get_db_for_date that filters and writes on self.df itself
get_db_for_date_NoCopy(self_df, date) ==
    LET after(r) == to_datetime(r.Created) = <<>>
                       \/ to_datetime(r.Created)[1] > date[1]
        late(r) == to_datetime(r.Collected) # <<>>
                      /\ to_datetime(r.Collected)[1] > date[1]
        live == IF date = NoDate THEN self_df
                ELSE [i \in 1..Len(self_df) |->
                        IF /\ self_df[i].Status # "unavailable"
                           /\ ~after(self_df[i])
                           /\ late(self_df[i])
                        THEN [self_df[i] EXCEPT !.Status = "missing"]
                        ELSE self_df[i]]
        df == SelectSeq(live, LAMBDA r : r.Status # "unavailable")
    IN  [df |-> live,
         view |-> IF date = NoDate THEN df
                  ELSE SelectSeq(df, LAMBDA r : ~after(r))]

\* get_db_for_date that also undoes the collections of the date itself
get_db_for_date_UndoOnDate(self_df, date) ==
    LET df == SelectSeq(self_df, LAMBDA r : r.Status # "unavailable")
        kept == SelectSeq(df, LAMBDA r :
                    /\ to_datetime(r.Created) # <<>>
                    /\ to_datetime(r.Created)[1] <= date[1])
    IN  [df |-> self_df,
         view |-> IF date = NoDate THEN df
                  ELSE [i \in 1..Len(kept) |->
                          IF /\ to_datetime(kept[i].Collected) # <<>>
                             /\ to_datetime(kept[i].Collected)[1] >= date[1]
                          THEN [kept[i] EXCEPT !.Status = "missing"]
                          ELSE kept[i]]]

\* get_db_for_date that drops the coins created on the date itself
get_db_for_date_Before(self_df, date) ==
    LET df == SelectSeq(self_df, LAMBDA r : r.Status # "unavailable")
        kept == SelectSeq(df, LAMBDA r :
                    /\ to_datetime(r.Created) # <<>>
                    /\ to_datetime(r.Created)[1] < date[1])
    IN  [df |-> self_df,
         view |-> IF date = NoDate THEN df
                  ELSE [i \in 1..Len(kept) |->
                          IF /\ to_datetime(kept[i].Collected) # <<>>
                             /\ to_datetime(kept[i].Collected)[1] > date[1]
                          THEN [kept[i] EXCEPT !.Status = "missing"]
                          ELSE kept[i]]]

\* get_db_for_date, lines 205-216.  The copy also holds the two parsed date
\* columns, which to_datetime gives here whenever they are read.
get_db_for_date(self_df, date) ==
    LET df == SelectSeq(self_df, LAMBDA r : r.Status # "unavailable")
        kept == SelectSeq(df, LAMBDA r :
                    /\ to_datetime(r.Created) # <<>>
                    /\ to_datetime(r.Created)[1] <= date[1])
    IN  [df |-> self_df,
         view |-> IF date = NoDate THEN df
                  ELSE [i \in 1..Len(kept) |->
                          IF /\ to_datetime(kept[i].Collected) # <<>>
                             /\ to_datetime(kept[i].Collected)[1] > date[1]
                          THEN [kept[i] EXCEPT !.Status = "missing"]
                          ELSE kept[i]]]

\* len(df[df[col] == val])
Count(df, col, val) == Len(SelectSeq(df, LAMBDA r : r[col] = val))

\* df[col].unique()
Unique(df, col) == {df[i][col] : i \in 1..Len(df)}

\* a ratio col / tot, and the "if tot > 0 else 0" of the reports
Ratio(col, tot) == [num |-> col, den |-> tot]
RatioOrZero(col, tot) == IF tot > 0 THEN Ratio(col, tot) ELSE Ratio(0, 1)

\* _emoji that gives the yellow marker from 75% on
emoji_YellowFrom75(fraction) ==
    LET pct == 100 * fraction.num
        den == fraction.den
    IN  IF fraction.num < 0 \/ fraction.num > den THEN "question"
        ELSE IF fraction.num = den THEN "check"
        ELSE IF pct >= 60 * den THEN "yellow"
        ELSE IF pct >= 45 * den THEN "orange"
        ELSE IF pct >= 30 * den THEN "red"
        ELSE IF pct >= 15 * den THEN "brown"
        ELSE IF fraction.num > 0 THEN "black"
        ELSE "cross"

\* _emoji, lines 485-507; the markers by name
emoji(fraction) ==
    LET pct == 100 * fraction.num
        den == fraction.den
    IN  IF fraction.num < 0 \/ fraction.num > den THEN "question"
        ELSE IF fraction.num = den THEN "check"
        ELSE IF pct >= 75 * den THEN "green"
        ELSE IF pct >= 60 * den THEN "yellow"
        ELSE IF pct >= 45 * den THEN "orange"
        ELSE IF pct >= 30 * den THEN "red"
        ELSE IF pct >= 15 * den THEN "brown"
        ELSE IF fraction.num > 0 THEN "black"
        ELSE "cross"

\* _emojid, lines 477-483, of the difference new - old of two ratios
emojid(old, new) ==
    LET delta == new.num * old.den - old.num * new.den
    IN  IF delta > 0 THEN "increase"
        ELSE IF delta < 0 THEN "decrease"
        ELSE "static"

\* the coin values the reports list, lines 294-296
CoinValues ==
    {"1 cent", "2 cent", "5 cent", "10 cent", "20 cent", "50 cent",
     "1 euro", "2 euro"}

IsCollected(r) == r.Status = "collected"
IsSpecial(r) == r.Special

\* the groups of rows a report has a line for: the whole view, the special
\* coins, each year, each country and each coin value
Subset(df, group, key) ==
    CASE group = "Total"   -> df
      [] group = "Special" -> SelectSeq(df, IsSpecial)
      [] group = "Year"    -> SelectSeq(df, LAMBDA r : ToString(r.Year) = key)
      [] group = "Country" -> SelectSeq(df, LAMBDA r : r.Country = key)
      [] group = "Value"   -> SelectSeq(df, LAMBDA r : r.CoinValue = key)

\* the groups and keys get_status and get_status_diff loop over
Groups(df) ==
    {<<"Total", "">>, <<"Special", "">>}
    \cup {<<"Year", ToString(y)>> : y \in Unique(df, "Year")}
    \cup {<<"Country", c>> : c \in Unique(df, "Country")}
    \cup {<<"Value", v>> : v \in CoinValues}

Report(kind, error, text, lines) ==
    [kind |-> kind, error |-> error, text |-> text, lines |-> lines]

\* no report sent yet
NoReport == Report("none", "", "", {})

\* a request raised: error_handler logs it and no report is sent
Raised(kind, error) == Report(kind, error, "", {})

\* get_status_diff, lines 98-203
get_status_diff(self_df, start, end) ==
    LET first == get_db_for_date(self_df, start)
        second == get_db_for_date(first.df, end)
        start_df == first.view
        end_df == second.view
        line(g) ==
            LET sdf == Subset(start_df, g[1], g[2])
                edf == Subset(end_df, g[1], g[2])
                old == RatioOrZero(Count(sdf, "Status", "collected"), Len(sdf))
                new == RatioOrZero(Count(edf, "Status", "collected"), Len(edf))
            IN  [group |-> g[1], key |-> g[2],
                 start_collected |-> Count(sdf, "Status", "collected"),
                 start_total |-> Len(sdf),
                 end_collected |-> Count(edf, "Status", "collected"),
                 end_total |-> Len(edf),
                 marker |-> emojid(old, new)]
    IN  [df |-> second.df,
         report |->
            IF \/ Len(start_df) = 0 \/ Len(end_df) = 0
               \/ Count(start_df, "Special", TRUE) = 0
               \/ Count(end_df, "Special", TRUE) = 0
            THEN Raised("diff", "ZeroDivisionError")
            ELSE IF Groups(end_df) \subseteq Groups(start_df)
            THEN Report("diff", "", "report", {line(g) : g \in Groups(end_df)})
            ELSE Raised("diff", "KeyError")]

\* get_status that does not look whether the view is empty
get_status_NoEmptyCheck(self_df, msg) ==
    IF msg.diff
    THEN IF Len(msg.dates) # 2
         THEN [df |-> self_df,
               report |-> Report("diff", "", "Need request in format", {})]
         ELSE IF strptime(msg.dates[1]) = <<>> \/ strptime(msg.dates[2]) = <<>>
         THEN [df |-> self_df, report |-> Raised("diff", "ValueError")]
         ELSE get_status_diff(self_df, strptime(msg.dates[1]),
                              strptime(msg.dates[2]))
    ELSE IF Len(msg.dates) = 1 /\ strptime(msg.dates[1]) = <<>>
    THEN [df |-> self_df, report |-> Raised("status", "ValueError")]
    ELSE
    LET given == IF Len(msg.dates) = 1 THEN strptime(msg.dates[1]) ELSE NoDate
        got == get_db_for_date(self_df, given)
        df == got.view
        line(g) ==
            LET gdf == Subset(df, g[1], g[2])
            IN  [group |-> g[1], key |-> g[2],
                 collected |-> Count(gdf, "Status", "collected"),
                 total |-> Len(gdf),
                 marker |-> emoji(RatioOrZero(Count(gdf, "Status", "collected"),
                                              Len(gdf)))]
    IN  [df |-> got.df,
         report |->
            IF Len(msg.dates) > 1
            THEN Raised("status", "UnboundLocalError")
            ELSE IF Count(df, "Special", TRUE) = 0
            THEN Raised("status", "ZeroDivisionError")
            ELSE Report("status", "", "report", {line(g) : g \in Groups(df)})]

\* get_status, lines 218-309.  msg is the request after the word "status":
\* whether "diff" follows, and the dates that follow.
get_status(self_df, msg) ==
    IF msg.diff
    THEN IF Len(msg.dates) # 2
         THEN [df |-> self_df,
               report |-> Report("diff", "", "Need request in format", {})]
         ELSE IF strptime(msg.dates[1]) = <<>> \/ strptime(msg.dates[2]) = <<>>
         THEN [df |-> self_df, report |-> Raised("diff", "ValueError")]
         ELSE get_status_diff(self_df, strptime(msg.dates[1]),
                              strptime(msg.dates[2]))
    ELSE IF Len(msg.dates) = 1 /\ strptime(msg.dates[1]) = <<>>
    THEN [df |-> self_df, report |-> Raised("status", "ValueError")]
    ELSE
    LET given == IF Len(msg.dates) = 1 THEN strptime(msg.dates[1]) ELSE NoDate
        got == get_db_for_date(self_df, given)
        df == got.view
        line(g) ==
            LET gdf == Subset(df, g[1], g[2])
            IN  [group |-> g[1], key |-> g[2],
                 collected |-> Count(gdf, "Status", "collected"),
                 total |-> Len(gdf),
                 marker |-> emoji(RatioOrZero(Count(gdf, "Status", "collected"),
                                              Len(gdf)))]
    IN  [df |-> got.df,
         report |->
            IF Len(msg.dates) > 1
            THEN Raised("status", "UnboundLocalError")
            ELSE IF Len(df) = 0
            THEN Report("status", "", "No data for this date", {})
            ELSE IF Count(df, "Special", TRUE) = 0
            THEN Raised("status", "ZeroDivisionError")
            ELSE Report("status", "", "report", {line(g) : g \in Groups(df)})]

\* the four add_change calls of status_delta, lines 334-340
DeltaGroups(year, value, country) ==
    {<<"Total", "">>, <<"Country", country>>, <<"Year", ToString(year)>>,
     <<"Value", value>>}

IsStaged(r) == r.Staged = PyTrue

\* status_delta that counts over every row of the ledger
status_delta_AllRows(self_df, year, value, country) ==
    LET df == self_df
        groups == DeltaGroups(year, value, country)
        done(gdf) == Count(gdf, "Status", "collected")
                        + Count(gdf, "Staged", PyTrue)
        line(g) ==
            LET gdf == Subset(df, g[1], g[2])
            IN  [group |-> g[1], key |-> g[2],
                 before |-> done(gdf),
                 after |-> done(gdf) + 1,
                 total |-> Len(gdf),
                 marker_before |-> emoji(Ratio(done(gdf), Len(gdf))),
                 marker_after |-> emoji(Ratio(done(gdf) + 1, Len(gdf)))]
    IN  [df |-> self_df,
         report |->
            IF \E r \in {df[i] : i \in 1..Len(df)} :
                  IsCollected(r) /\ IsStaged(r)
            THEN Raised("delta", "AssertionError")
            ELSE IF \E g \in groups : Len(Subset(df, g[1], g[2])) = 0
            THEN Raised("delta", "ZeroDivisionError")
            ELSE Report("delta", "", "report", {line(g) : g \in groups})]

\* status_delta that counts the collected coins only
status_delta_IgnoreStaged(self_df, year, value, country) ==
    LET df == SelectSeq(self_df, LAMBDA r : r.Status # "unavailable")
        groups == DeltaGroups(year, value, country)
        done(gdf) == Count(gdf, "Status", "collected")
        line(g) ==
            LET gdf == Subset(df, g[1], g[2])
            IN  [group |-> g[1], key |-> g[2],
                 before |-> done(gdf),
                 after |-> done(gdf) + 1,
                 total |-> Len(gdf),
                 marker_before |-> emoji(Ratio(done(gdf), Len(gdf))),
                 marker_after |-> emoji(Ratio(done(gdf) + 1, Len(gdf)))]
    IN  [df |-> self_df,
         report |->
            IF \E r \in {df[i] : i \in 1..Len(df)} :
                  IsCollected(r) /\ IsStaged(r)
            THEN Raised("delta", "AssertionError")
            ELSE IF \E g \in groups : Len(Subset(df, g[1], g[2])) = 0
            THEN Raised("delta", "ZeroDivisionError")
            ELSE Report("delta", "", "report", {line(g) : g \in groups})]

\* status_delta, lines 311-342
status_delta(self_df, year, value, country) ==
    LET df == SelectSeq(self_df, LAMBDA r : r.Status # "unavailable")
        groups == DeltaGroups(year, value, country)
        done(gdf) == Count(gdf, "Status", "collected")
                        + Count(gdf, "Staged", PyTrue)
        line(g) ==
            LET gdf == Subset(df, g[1], g[2])
            IN  [group |-> g[1], key |-> g[2],
                 before |-> done(gdf),
                 after |-> done(gdf) + 1,
                 total |-> Len(gdf),
                 marker_before |-> emoji(Ratio(done(gdf), Len(gdf))),
                 marker_after |-> emoji(Ratio(done(gdf) + 1, Len(gdf)))]
    IN  [df |-> self_df,
         report |->
            IF \E r \in {df[i] : i \in 1..Len(df)} :
                  IsCollected(r) /\ IsStaged(r)
            THEN Raised("delta", "AssertionError")
            ELSE IF \E g \in groups : Len(Subset(df, g[1], g[2])) = 0
            THEN Raised("delta", "ZeroDivisionError")
            ELSE Report("delta", "", "report", {line(g) : g \in groups})]


\* the requests get_status does not expect: "status diff" with fewer than
\* two dates, "status" with more than one, and a word that is no date
Malformed ==
    {[diff |-> TRUE, dates |-> <<>>], [diff |-> TRUE, dates |-> <<MaxDay>>],
     [diff |-> FALSE, dates |-> <<0, MaxDay>>],
     [diff |-> TRUE, dates |-> <<BadToken, MaxDay>>],
     [diff |-> FALSE, dates |-> <<BadToken>>]}

\* the requests that start with "status": "status", "status <date>",
\* "status diff <date> <date>", and the malformed ones
StatusMessages ==
    [diff : {FALSE}, dates : {<<>>} \cup {<<d>> : d \in RequestDates}]
    \cup [diff : {TRUE},
          dates : {<<d, e>> : d \in RequestDates, e \in RequestDates}]
    \cup Malformed

\* The dispatcher can take a request for a report.  A request taken while
\* the timer thread is inside a cycle reads the ledger of before the cycle,
\* since only the last step of a cycle replaces db: it is taken before the
\* cycle here.  No report reads the document, and an edit of the document
\* is a step of the quiet states: a request taken after an edit that the
\* timer thread has yet to fetch is taken before the edit here.
Ready ==
    /\ proc = "up"
    /\ stage.pc = "idle"
    /\ out = NoReport
    /\ reload \in {"wait", "fetch_raised", "align_raised"}
    /\ reload = "wait" => etag = file_etag

\* setup, lines 171-173: a message that starts with "status" is answered
\* with the report of get_status, whoever sends it
StatusRequest ==
    /\ Ready
    /\ \E msg \in StatusMessages :
          LET r == get_status(db, msg)
          IN  /\ db' = r.df
              /\ out' = r.report
    /\ UNCHANGED <<sheet, etag, today, proc, file_etag, filepath, csv, newdf,
                   reload, timers, prefs, stage, latest_csv_path>>

\* stage_coin, lines 776-780: the report of status_delta for a coin of the
\* ledger that stage_coin has left with the Status "missing"
StatusDelta ==
    /\ Ready
    /\ \E i \in 1..Len(db) :
          /\ db[i].Status = "missing"
          /\ LET r == status_delta(db, db[i].Year, db[i].CoinValue,
                                   db[i].Country)
             IN  /\ db' = r.df
                 /\ out' = r.report
    /\ UNCHANGED <<sheet, etag, today, proc, file_etag, filepath, csv, newdf,
                   reload, timers, prefs, stage, latest_csv_path>>

\* return_message, lines 291-330: the report is sent and the handler returns
return_message ==
    /\ out # NoReport
    /\ out' = NoReport
    /\ UNCHANGED <<sheet, etag, today, proc, file_etag, filepath, db, csv,
                   newdf, reload, timers, prefs, stage, latest_csv_path>>

\* the documents a behaviour starts from: one that lists a coin twice, one
\* with a coin that cannot be collected (black cell)
InitSheets ==
    {<<Absent, White, White, White>>, <<Black, White, Absent, White>>}

\* the state before CoinBot.__init__ runs, whatever path the caller passes
Start ==
    /\ sheet \in InitSheets
    /\ etag = 0
    /\ today = 1
    /\ proc = "down"
    /\ file_etag = -1
    /\ filepath = [i \in 1..NumCells |-> Absent]
    /\ db = <<>>
    /\ csv = <<>>
    /\ newdf = <<>>
    /\ reload = "off"
    /\ timers = 0
    /\ prefs = [known |-> FALSE, collecting_language |-> FALSE,
                collecting_username |-> FALSE, username |-> NA, last_found_coin |-> NoCoin,
                button |-> FALSE]
    /\ stage = Returned("")
    /\ out = NoReport

\* main passes the path of the file save_df writes (app.py, lines 25-27)
Init == Start /\ latest_csv_path = SavePath

\* a caller that passes any path
PathInit == Start /\ latest_csv_path \in Paths

Next ==
    \/ EditSheet
    \/ Tick
    \/ Construct
    \/ ReloadFetch
    \/ ReloadDecode
    \/ ReloadAlign
    \/ ReloadSave
    \/ ReloadSwap
    \/ handle_text_message
    \/ StageLookup
    \/ StageSetStaged
    \/ StageSetCollector
    \/ StageSetStatus
    \/ StageSave

Spec == Init /\ [][Next]_vars

\* reload_data, lines 146-154, between two requests: the sending of a
\* report and the start of a cycle touch nothing in common, so that the
\* cycle is started after the report is sent
ReloadBetweenRequests == out = NoReport /\ ReloadFetch

\* the ledger engine with its reports: the document, the days and the
\* reloads change the ledger, and the reports are asked for at any time
ReportNext ==
    \/ EditSheet
    \/ Tick
    \/ Construct
    \/ ReloadBetweenRequests
    \/ ReloadDecode
    \/ ReloadAlign
    \/ ReloadSave
    \/ ReloadSwap
    \/ StatusRequest
    \/ StatusDelta
    \/ return_message

ReportSpec == Init /\ [][ReportNext]_vars

\* the program as any caller of CoinBot can configure it
PathSpec == PathInit /\ [][Next]_vars

\* a line of a report marks the ratio of col collected coins out of tot
\* (self._emoji(fra) in get_status); out holds the ratio and its marker
MarkRatio ==
    /\ \E tot \in 1..MaxTotal :
          \E col \in 0..tot :
             out' = Report("marker", "", emoji(Ratio(col, tot)),
                           {Ratio(col, tot)})
    /\ UNCHANGED <<sheet, etag, today, proc, file_etag, filepath, db, csv,
                   newdf, reload, timers, prefs, stage, latest_csv_path>>

\* the marker of every ratio of up to MaxTotal coins
MarkerSpec == Init /\ [][MarkRatio]_vars

-----------------------------------------------------------------------------
(* The reports on the ledgers that many days of edits, reloads and          *)
(* stagings leave behind.  A ledger is given by what it holds of each coin: *)
(* no row, or a row with the Status, the dates and the Staged mark that     *)
(* align and stage_coin can have written.                                   *)

\* the coins of the ledgers: one coin of the EU sheet, two special coins
LedgerCells == {1, 2, 4}

NoRow == [Status |-> "absent", Created |-> NA, Collected |-> NA, Staged |-> NA]

\* what a ledger can hold of coin i.  align dates a collection only when it
\* sees it happen (lines 88-92), so a collected row may have no Collected
\* date; stage_coin is offered for special coins and leaves the row missing,
\* or collected when the coin was collected meanwhile.
RowStates(i) ==
    {[Status |-> "unavailable", Created |-> ToString(c), Collected |-> NA,
      Staged |-> NA] : c \in Days}
    \cup {[Status |-> "missing", Created |-> ToString(c), Collected |-> NA,
           Staged |-> NA] : c \in Days}
    \cup {[Status |-> "collected", Created |-> ToString(c), Collected |-> NA,
           Staged |-> NA] : c \in Days}
    \cup {[Status |-> "collected", Created |-> ToString(cd[1]),
           Collected |-> ToString(cd[2]), Staged |-> NA] :
              cd \in {x \in Days \X Days : x[1] <= x[2]}}
    \cup {[Status |-> st, Created |-> ToString(c), Collected |-> NA,
           Staged |-> PyTrue] :
              st \in IF Cells[i].Special THEN {"missing", "collected"} ELSE {},
              c \in Days}

\* the row of coin i in the state st
LedgerRow(i, st) ==
    [InsertColumns(DecodeRow([j \in 1..NumCells |-> White], i))
        EXCEPT !.Status = st.Status,
               !.Created = st.Created,
               !.Collected = st.Collected,
               !.Staged = st.Staged,
               !.Collector = IF st.Staged = PyTrue
                             THEN CHOOSE n \in Names : TRUE ELSE NA]

\* the ledger that holds the coins as f says, in decoder order
LedgerOf(f) ==
    LET doc == [i \in 1..NumCells |->
                   IF i \in LedgerCells /\ f[i] # NoRow THEN White ELSE Absent]
        p == Present(doc, 1)
    IN  [j \in 1..Len(p) |-> LedgerRow(p[j], f[p[j]])]

\* the cell of a coin whose row has the Status st
FillOf(st) ==
    CASE st = "unavailable" -> Black
      [] st = "missing"     -> White
      [] st = "collected"   -> Green
      [] OTHER              -> Absent

\* the process some days after its start, between two reloads, with the
\* document, the downloaded file and the snapshot that go with the ledger
LedgerInit ==
    /\ \E f \in [LedgerCells -> UNION {RowStates(i) : i \in LedgerCells}
                                   \cup {NoRow}] :
          /\ \A i \in LedgerCells : f[i] \in RowStates(i) \cup {NoRow}
          /\ db = LedgerOf(f)
          /\ sheet = [i \in 1..NumCells |->
                         IF i \in LedgerCells THEN FillOf(f[i].Status)
                         ELSE Absent]
    /\ filepath = sheet
    /\ csv = to_csv(db)
    /\ etag = 0
    /\ file_etag = 0
    /\ today = MaxDay
    /\ proc = "up"
    /\ newdf = <<>>
    /\ reload = "wait"
    /\ timers = 1
    /\ prefs = [known |-> FALSE, collecting_language |-> FALSE,
                collecting_username |-> FALSE, username |-> NA,
                last_found_coin |-> NoCoin, button |-> FALSE]
    /\ stage = Returned("")
    /\ latest_csv_path = SavePath
    /\ out = NoReport

LedgerNext ==
    \/ StatusRequest
    \/ StatusDelta
    \/ return_message

LedgerSpec == LedgerInit /\ [][LedgerNext]_vars

-----------------------------------------------------------------------------
(* The decoders of the sheets, on their own.  A sheet of coin blocks is     *)
(* given by its layout: whether column B of the block's first row holds a   *)
(* country name, how many year markers the row below holds, how many rows   *)
(* the sheet has, and whether the block starts on the row it is expected on *)
(* (at = 0) or one row below (at = 1).                                      *)

RowCounts == 0..12 \cup {57, 58}

Layouts ==
    [sheet : {"EU", "Deutschland"}, country : BOOLEAN, years : 0..MaxYears,
     rows : RowCounts, at : {0, 1}]

\* the outcome of a decoder: the exception it raises, or the number of rows
\* it gives and whether it read them from the rows of the coin values
Decoded(error, n, aligned) == [error |-> error, rows |-> n, aligned |-> aligned]

\* setup_eu_dataframe, lines 352-392, on a sheet with one block.  The
\* country row is found wherever it is; the rows of the coin values are
\* taken at num_countries * 11 + value_idx + 2, whatever row it was on.
setup_eu_dataframe(layout) ==
    IF ~layout.country \/ layout.rows <= layout.at
    THEN Decoded("", 0, TRUE)
    ELSE IF layout.rows <= layout.at + 1
    THEN Decoded("IndexError", 0, TRUE)
    ELSE IF layout.years = 0
    THEN Decoded("", 0, TRUE)
    ELSE IF layout.rows < 10
    THEN Decoded("IndexError", 0, TRUE)
    ELSE Decoded("", 8 * layout.years, layout.at = 0)

\* setup_ger_dataframe, lines 394-431: the five blocks of five years are
\* read at fixed rows; no cell of a header is looked at
setup_ger_dataframe(layout) ==
    IF layout.rows < 58
    THEN Decoded("IndexError", 0, TRUE)
    ELSE Decoded("", 5 * 5 * 8 * 5, layout.at = 0)

\* the value of a cell: None, an int, a float (num is the value times
\* 1000) or a str (num is int(str) when str.isdigit())
None == [type |-> "none", num |-> 0, str |-> ""]
IntCell(n) == [type |-> "int", num |-> n, str |-> ""]
FloatCell(n) == [type |-> "float", num |-> n, str |-> ""]
StrCell(s, n) == [type |-> "str", num |-> n, str |-> s]

Placeholders == {None, StrCell("---", 0), StrCell("???", 0)}

Words == {StrCell("", 0), StrCell("n/a", 0), StrCell("1.5", 0)}

Digits == {StrCell("250", 250), StrCell("1500", 1500)}

Amounts == {250 * k : k \in 0..MaxAmount}

CellValues ==
    Placeholders \cup Words \cup Digits
    \cup {IntCell(n) : n \in Amounts} \cup {IntCell(0 - n) : n \in Amounts}
    \cup {FloatCell(n) : n \in Amounts}

\* int(x / 1000) of astype(int): towards zero
Thousands(n) == IF n >= 0 THEN n \div 1000 ELSE 0 - ((0 - n) \div 1000)

\* convert_to_thousands, utils.py lines 18-24, and the astype(int) of the
\* decoders
convert_to_thousands(value) ==
    IF value.type = "int" THEN Thousands(value.num)
    ELSE IF value.type = "str" /\ value \in Digits THEN Thousands(value.num)
    ELSE 0 - 1

\* the Amount of a cell in setup_eu_dataframe and setup_ger_dataframe,
\* lines 378-380 and 389, 416-418 and 429
amount_of_cell(value) ==
    [error |-> "",
     amount |-> convert_to_thousands(IF value \in Placeholders THEN IntCell(0)
                                     ELSE value)]

\* the Amount of a row in setup_sonder_dataframe, line 447:
\* int(row[3].value * 1000).  A str times 1000 is the str repeated.
amount_of_special(value) ==
    IF value.type = "none" THEN [error |-> "TypeError", amount |-> 0]
    ELSE IF value.type = "str" THEN [error |-> "ValueError", amount |-> 0]
    ELSE IF value.type = "int"
    THEN [error |-> "", amount |-> value.num * 1000]
    ELSE [error |-> "", amount |-> value.num]

\* the cells given to the decoder of the special coins: a str of digits
\* repeated 1000 times is a number too large to write down here
SpecialCellValues == CellValues \ Digits

\* a sheet of coin blocks is decoded
DecodeSheet ==
    /\ \E layout \in Layouts :
          LET d == IF layout.sheet = "EU" THEN setup_eu_dataframe(layout)
                   ELSE setup_ger_dataframe(layout)
          IN  out' = Report("decode", d.error, layout.sheet,
                            {[layout |-> layout, rows |-> d.rows,
                              aligned |-> d.aligned]})
    /\ UNCHANGED <<sheet, etag, today, proc, file_etag, filepath, db, csv,
                   newdf, reload, timers, prefs, stage, latest_csv_path>>

\* the Amount of one cell is decoded
DecodeAmount ==
    /\ \/ \E sh \in {"EU", "Deutschland"}, value \in CellValues :
             out' = Report("amount", amount_of_cell(value).error, sh,
                           {[value |-> value,
                             amount |-> amount_of_cell(value).amount]})
       \/ \E value \in SpecialCellValues :
             out' = Report("amount", amount_of_special(value).error,
                           "Sondermuenzen",
                           {[value |-> value,
                             amount |-> amount_of_special(value).amount]})
    /\ UNCHANGED <<sheet, etag, today, proc, file_etag, filepath, db, csv,
                   newdf, reload, timers, prefs, stage, latest_csv_path>>

DecoderNext ==
    \/ DecodeSheet
    \/ DecodeAmount

DecoderSpec == Init /\ [][DecoderNext]_vars

-----------------------------------------------------------------------------
(* stage_coin to its end, from a session that holds a stage button.  The    *)
(* button of a chat stays, and last_found_coin stays in the session, for as *)
(* long as the process runs: the user got the button for the special coin   *)
(* TYE while it was missing, and presses it days later.  Its row is         *)
(* now missing, or unavailable: it was taken out of the document, which a   *)
(* reload follows without error (align goes through the decoded rows        *)
(* alone), and put back with a black cell, which a reload takes for a new   *)
(* row (lines 74-79).                                                       *)

\* the cell of the coin of the button
HeldCell == 2

\* the documents the ledger was built from: the coin is listed once
HeldSheets ==
    {<<White, Black, Absent, Green>>, <<White, White, Absent, White>>,
     <<Absent, Black, Absent, Absent>>, <<Black, White, Absent, Green>>}

StagingInit ==
    /\ sheet \in HeldSheets
    /\ filepath = sheet
    /\ db = align(Decode(sheet), <<>>, 1).df
    /\ csv = to_csv(db)
    /\ etag = 0
    /\ file_etag = 0
    /\ today = 1
    /\ proc = "up"
    /\ newdf = <<>>
    /\ reload = "wait"
    /\ timers = 1
    /\ \E name \in Names \cup {NA} :
          prefs = [known |-> TRUE, collecting_language |-> FALSE,
                   collecting_username |-> FALSE, username |-> name,
                   last_found_coin |->
                       FoundCoin(DecodeRow([i \in 1..NumCells |-> White],
                                           HeldCell)),
                   button |-> TRUE]
    /\ stage = Returned("")
    /\ latest_csv_path = SavePath
    /\ out = NoReport

\* the dispatcher takes the next update when the handler of the last one
\* has returned
DispatchMessage == out = NoReport /\ handle_text_message
DispatchStage == out = NoReport /\ StageLookup

\* stage_coin, lines 764-780: save_df, then the report of status_delta for
\* the coin of the button is sent.  Lines 766-772 post to Slack when a
\* token was given and write nothing of the ledger or the session.
StageSaveAndReport ==
    /\ stage.pc = "statused"
    /\ csv' = to_csv(db)
    /\ stage' = Returned("")
    /\ LET c == prefs.last_found_coin[1]
       IN  out' = status_delta(db, c.year, c.value, c.country).report
    /\ UNCHANGED <<sheet, etag, today, proc, file_etag, filepath, db, newdf,
                   reload, timers, prefs, latest_csv_path>>

StagingNext ==
    \/ EditSheet
    \/ Tick
    \/ ReloadFetch
    \/ ReloadDecode
    \/ ReloadAlign
    \/ ReloadSave
    \/ ReloadSwap
    \/ DispatchMessage
    \/ DispatchStage
    \/ StageSetStaged
    \/ StageSetCollector
    \/ StageSetStatus
    \/ StageSaveAndReport
    \/ return_message

StagingSpec == StagingInit /\ [][StagingNext]_vars

-----------------------------------------------------------------------------
(* Properties.                                                              *)

\* the identity key of a row
KeyOf(r) == <<r.Country, r.Year, r.CoinValue, r.Source, r.Special, r.Name>>

\* the rows of the previous snapshot that have the identity key of r
Previous(latest_df, r) ==
    SelectSeq(latest_df, LAMBDA t : KeyOf(t) = KeyOf(r))

\* the coin the user's stage button stands for
Requested == prefs.last_found_coin[1]

\* the steps of the reload thread and of the constructor that reconcile
AlignStep == reload = "decoded" /\ reload' \in {"aligned", "align_raised"}
ConstructStep == proc = "down" /\ proc' = "up"

\* the dispatcher thread enters, or fails to enter, stage_coin
LookupStep == stage.pc = "idle" /\ prefs.button /\ stage' # stage

\* C1: whenever no staging is under way, no row of the ledger is staged and
\* collected at the same time.
C1_NeverStagedAndCollected ==
    stage.pc = "idle" =>
        \A i \in 1..Len(db) :
            ~(db[i].Staged = PyTrue /\ db[i].Status = "collected")

\* a status that moved backward from the snapshot to the decoded row
Backward ==
    {<<"collected", "missing">>, <<"collected", "unavailable">>,
     <<"missing", "unavailable">>}

HasBackward(df, latest_df) ==
    \E i \in 1..Len(df) :
        LET m == Previous(latest_df, df[i])
        IN  Len(m) = 1 /\ <<m[1].Status, df[i].Status>> \in Backward

Reconciled(df) ==
    \A i \in 1..Len(df) :
        {"Created", "Collected", "Staged", "Collector"} \subseteq DOMAIN df[i]

\* C3: the ledger the handlers read changes only by the writes of a
\* stage_coin to one of its rows, or by the reload thread putting in its
\* place a ledger that was decoded, reconciled without error and saved; the
\* steps that fetch, decode, reconcile and save leave it alone.
C3_OnlyCompleteLedgersVisible ==
    [][db' # db =>
          \/ ConstructStep /\ Reconciled(db')
          \/ /\ stage.pc \in {"looked", "staged", "named"}
             /\ stage'.pc # stage.pc
             /\ reload' = reload
             /\ Len(db') = Len(db)
             /\ \A i \in 1..Len(db) : i # stage.idx => db'[i] = db[i]
          \/ /\ reload = "saved"
             /\ reload' = "wait"
             /\ Reconciled(newdf)
             /\ db' = newdf]_vars

C3_Witness ==
    /\ reload = "wait"
    /\ etag > 0
    /\ file_etag = etag
    /\ Len(db) = Len(Decode(sheet))
    /\ \A i \in 1..Len(db) : db[i].Status = Decode(sheet)[i].Status
    /\ \E i \in 1..Len(db) : db[i].Collected # NA

\* C4: after a reload cycle whose fetch raised, a timer for the next cycle
\* is pending.
C4_FetchFailureKeepsReloading ==
    reload = "fetch_raised" => timers > 0

\* C5: after a reload cycle whose reconciliation raised, a timer for the
\* next cycle is pending.
C5_ReconcileFailureIsRetried ==
    reload = "align_raised" => timers > 0

\* the row stage_coin found, as it found it
Found == stage.prior[stage.idx]

\* a step of stage_coin that writes to the ledger, and its return
StageWriteStep ==
    stage.pc \in {"looked", "staged", "named"} /\ stage'.pc # stage.pc
StageReturnStep == stage.pc = "statused" /\ stage'.pc = "idle"

\* C6: a stage_coin that found exactly one row, missing or unavailable,
\* writes to no row of another coin, and when it returns the row of the
\* coin is staged, collected by the user's name and missing.
C6_StagingMarksTheRow ==
    [][(stage.pc # "idle" /\ Found.Status \in {"missing", "unavailable"}) =>
          /\ StageWriteStep =>
                \A i \in 1..Len(db) :
                    KeyOf(db[i]) # KeyOf(Found) => db'[i] = db[i]
          /\ StageReturnStep =>
                \A i \in 1..Len(db') :
                    KeyOf(db'[i]) = KeyOf(Found) =>
                        /\ db'[i].Staged = PyTrue
                        /\ db'[i].Collector = prefs.username
                        /\ db'[i].Status = "missing"]_vars

\* C6, with no reload putting another ledger in place while stage_coin
\* runs: it ends with the row it found staged, collected by the user's name
\* and missing, and with every other row and every other column of the row
\* as it found them.
C6_SerializedStagingMarksTheRow ==
    [][(StageReturnStep /\ ~stage.raced
        /\ Found.Status \in {"missing", "unavailable"})
          => /\ db' = [stage.prior EXCEPT
                          ![stage.idx].Staged = PyTrue,
                          ![stage.idx].Collector = prefs.username,
                          ![stage.idx].Status = "missing"]
             /\ prefs.username \in Names]_vars

C6_SerializedWitness ==
    /\ stage.pc = "statused"
    /\ ~stage.raced
    /\ Found.Status = "missing"
    /\ Found.Staged = NA
    /\ db[stage.idx].Staged = PyTrue
    /\ db[stage.idx].Collector \in Names
    /\ Len(db) > 1

\* C7: a press of the stage button whose coin matches no row or several
\* rows ends stage_coin at once: no row and no snapshot is written.
C7_AmbiguousRequestWritesNothing ==
    [][(LookupStep /\ Cardinality(row_indexes(db, Requested)) # 1)
          => (stage'.pc = "idle" /\ db' = db /\ csv' = csv)]_vars

C7_Witness ==
    /\ stage.pc = "idle"
    /\ stage.error = "AssertionError"
    /\ Cardinality(row_indexes(db, Requested)) > 1

C7_WitnessNoRow ==
    /\ stage.pc = "idle"
    /\ stage.error = "AssertionError"
    /\ row_indexes(db, Requested) = {}

\* C8: a stage_coin whose row was collected when it was looked up writes
\* nothing to it: the row stays collected and unstaged.
C8_CollectedRowIsRejected ==
    (/\ stage.pc # "idle"
     /\ ~stage.raced
     /\ Found.Status = "collected")
        => (/\ db[stage.idx].Status = "collected"
            /\ db[stage.idx].Staged = Found.Staged)

\* the rows of a pass that go from not collected to collected
StampedOnCollection(decoded, latest_df, result, day) ==
    \A i \in 1..Len(decoded) :
        LET m == Previous(latest_df, decoded[i])
        IN  (/\ Len(m) = 1
             /\ m[1].Status # "collected"
             /\ decoded[i].Status = "collected")
                => (/\ result[i].Collected = DateStr(day)
                    /\ result[i].Created = m[1].Created)

\* C9: a pass that succeeds gives every row with exactly one previous match
\* that was not collected and now is, today as Collected and the previous
\* row's Created.
C9_CollectionIsDated ==
    [][/\ (AlignStep /\ reload' = "aligned")
            => StampedOnCollection(newdf, read_csv(csv), newdf', today)
       /\ ConstructStep
            => StampedOnCollection(Decode(sheet), read_csv(csv), db', today)]_vars

C9_Witness ==
    /\ reload = "aligned"
    /\ \E i \in 1..Len(newdf) :
          LET m == Previous(read_csv(csv), newdf[i])
          IN  /\ Len(m) = 1
              /\ m[1].Status = "missing"
              /\ newdf[i].Status = "collected"
              /\ newdf[i].Collected = DateStr(today)
              /\ newdf[i].Created # DateStr(today)

\* the snapshot holds the decoded rows, in order, with the same Status
SameRows(decoded, latest_df) ==
    /\ Len(decoded) = Len(latest_df)
    /\ \A i \in 1..Len(decoded) :
          /\ KeyOf(decoded[i]) = KeyOf(latest_df[i])
          /\ decoded[i].Status = latest_df[i].Status

CarriedOver(decoded, latest_df, result, rows) ==
    \A i \in rows :
        /\ result[i].Created = latest_df[i].Created
        /\ result[i].Collected = latest_df[i].Collected

\* the rows whose identity key the snapshot holds once
UniqueRows(latest_df) ==
    {i \in 1..Len(latest_df) : Len(Previous(latest_df, latest_df[i])) = 1}

Persisted(file) ==
    SelectSeq(read_csv(file), LAMBDA t : KeyOf(t) = KeyOf(Found))

\* C11: when a stage_coin returns after its writes, the snapshot file holds
\* the row of the coin as staged and collected by the user's name.
C11_StagingIsWrittenThrough ==
    [][StageReturnStep =>
          /\ Persisted(csv') # <<>>
          /\ \A i \in 1..Len(Persisted(csv')) :
                /\ Persisted(csv')[i].Staged = PyTrue
                /\ Persisted(csv')[i].Collector = prefs.username]_vars

\* C11, with no reload putting another ledger in place while stage_coin
\* runs: the snapshot written before the return is the ledger with the row
\* staged.
C11_SerializedStagingIsWrittenThrough ==
    [][(StageReturnStep /\ ~stage.raced) =>
          /\ csv' = to_csv(db)
          /\ Len(Persisted(csv')) = 1
          /\ Persisted(csv')[1].Staged = PyTrue
          /\ Persisted(csv')[1].Collector = prefs.username]_vars

\* the timer thread is between its download and its swap of self.db
ReloadActive == reload \in {"fetched", "decoded", "aligned", "saved"}

\* the dispatcher thread is inside stage_coin, between lookup and save
StageActive == stage.pc \in {"looked", "staged", "named", "statused"}

\* C12: a reload and a stage_coin are never under way at the same time.
C12_ReloadAndStagingSerialized ==
    ~(ReloadActive /\ StageActive)

\* C13: the file a reconciliation pass is about to read as its baseline
\* holds what the last persistence wrote, whatever snapshot path the
\* caller configured.
C13_BaselineIsLastSnapshot ==
    reload = "decoded" => LatestCsv = csv

\* C14: the timer thread goes on to decode only after a fetch whose Etag
\* differs from the stored one, and then stores the new Etag and document;
\* while the upstream Etag equals the stored one, no step of the timer
\* thread changes the stored Etag, the downloaded document, the ledger or
\* the snapshot.
C14_RefetchOnlyOnNewFingerprint ==
    [][/\ (reload = "wait" /\ reload' = "fetched")
            => (etag # file_etag /\ file_etag' = etag /\ filepath' = sheet)
       /\ (proc = "up" /\ reload = "wait" /\ etag = file_etag)
            => /\ reload' \in {"wait", "fetch_raised"}
               /\ file_etag' = file_etag
               /\ filepath' = filepath
               /\ newdf' = newdf
               /\ stage' = stage => (db' = db /\ csv' = csv)]_vars

C14_Witness ==
    /\ proc = "up"
    /\ reload = "wait"
    /\ timers > 0
    /\ etag > 0
    /\ etag = file_etag
    /\ filepath = sheet
    /\ csv = to_csv(db)

\* C15: every row of the ledger the handlers read is unavailable, missing
\* or collected.
C15_StatusIsOneOfThree ==
    \A i \in 1..Len(db) :
        db[i].Status \in {"unavailable", "missing", "collected"}

-----------------------------------------------------------------------------
(* The point-in-time view and the reports.                                  *)

\* a date column's value that is a date not after day D / a date after day D
OnOrBefore(s, D) == s \in {ToString(d) : d \in 1..D}
After(s, D) == s # NA /\ ~OnOrBefore(s, D)

\* the rows of a ledger as they stood on day D: those created by then, a
\* later collection undone
AsOf(rows, D) ==
    LET kept == SelectSeq(rows, LAMBDA r : OnOrBefore(r.Created, D))
    IN  [i \in 1..Len(kept) |->
            IF After(kept[i].Collected, D)
            THEN [kept[i] EXCEPT !.Status = "missing"]
            ELSE kept[i]]

Available(rows) == SelectSeq(rows, LAMBDA r : r.Status # "unavailable")

\* C16 as stated: for every date D the view of the ledger holds exactly the
\* rows created on or before D, unavailable rows included, a row collected
\* after D shown as missing and every other row with its Status.
C16_ViewKeepsUnavailableRows ==
    \A D \in RequestDates :
        get_db_for_date(db, <<D>>).view = AsOf(db, D)

\* C16: for every date D the view of the ledger holds exactly the rows that
\* are not unavailable and were created on or before D, in ledger order; a
\* row collected after D is shown as missing, every other row with its
\* Status; no unavailable row is in the view.
C16_ViewOfAvailableRows ==
    \A D \in RequestDates :
        get_db_for_date(db, <<D>>).view = AsOf(Available(db), D)

\* a report for day D was sent from a ledger with an unavailable row and a
\* coin collected after D, both created on D
C16_Witness ==
    /\ out.kind = "status"
    /\ out.text = "report"
    /\ \E D \in RequestDates :
          /\ out = get_status(db, [diff |-> FALSE, dates |-> <<D>>]).report
          /\ \E i \in 1..Len(db) :
                /\ db[i].Status = "unavailable"
                /\ db[i].Created = ToString(D)
          /\ \E i \in 1..Len(db) :
                /\ db[i].Status = "collected"
                /\ db[i].Created = ToString(D)
                /\ After(db[i].Collected, D)

\* a request for a report is answered: get_status (current, as of a date, or
\* the difference of two dates) or status_delta has run
ReportStep == out = NoReport /\ out' # NoReport

\* C17: the step that computes a report (current status, status as of a
\* date, difference report, single-change delta), whether it sends text or
\* raises, leaves every row of the live ledger as it was: Status, Staged,
\* Collector, Created and Collected.
C17_ReportsLeaveTheLedgerUnchanged ==
    [][ReportStep => db' = db]_vars

\* a difference report was sent whose first date lies before a collection of
\* the live ledger, so that the view of that date had the coin rolled back
C17_Witness ==
    /\ out.kind = "diff"
    /\ out.text = "report"
    /\ \E l \in out.lines :
          /\ l.group = "Total"
          /\ l.marker = "increase"
          /\ l.start_collected < Count(db, "Status", "collected")
    /\ \E i \in 1..Len(db) : db[i].Status = "collected"

\* no date of the ledger lies after the current day
NoFutureDate(rows) ==
    \A i \in 1..Len(rows) :
        ~After(rows[i].Created, today) /\ ~After(rows[i].Collected, today)

\* C18 as stated: with no Collected date in the future, the view at today's
\* date has the same rows with the same Status as the live ledger.
C18_ViewAtTodayIsTheLedger ==
    (proc = "up" /\ NoFutureDate(db))
        => get_db_for_date(db, <<today>>).view = db

\* C18: with no Created or Collected date in the future, the view at today's
\* date has, in ledger order and each with the Status it has in the live
\* ledger, the rows of the live ledger that are not unavailable and have a
\* Created date; it has no other row.
C18_ViewAtTodayIsTheAvailableLedger ==
    (proc = "up" /\ NoFutureDate(db))
        => get_db_for_date(db, <<today>>).view
              = SelectSeq(Available(db), LAMBDA r : r.Created # NA)

\* a report as of today was sent from a ledger with an unavailable row and a
\* coin collected today
C18_Witness ==
    /\ proc = "up"
    /\ NoFutureDate(db)
    /\ out.text = "report"
    /\ out = get_status(db, [diff |-> FALSE, dates |-> <<today>>]).report
    /\ \E i \in 1..Len(db) : db[i].Status = "unavailable"
    /\ \E i \in 1..Len(db) :
          db[i].Status = "collected" /\ db[i].Collected = ToString(today)

\* membership of a row in a group of a report
InGroup(r, group, key) ==
    CASE group = "Total"   -> TRUE
      [] group = "Special" -> r.Special
      [] group = "Year"    -> ToString(r.Year) = key
      [] group = "Country" -> r.Country = key
      [] group = "Value"   -> r.CoinValue = key

\* the number of rows of a group that are not unavailable and, for a report
\* as of a date, were created by then
Counted(rows, date, group, key) ==
    Cardinality({i \in 1..Len(rows) :
                    /\ rows[i].Status # "unavailable"
                    /\ date = NoDate \/ OnOrBefore(rows[i].Created, date[1])
                    /\ InGroup(rows[i], group, key)})

\* C19: whenever a request can be taken, in the report of every "status"
\* request (current, as of a date, difference of two dates) and in the
\* single-change delta of every coin, the denominator of each line (whole
\* ledger, special coins, a year, a country, a coin value) is the number of
\* rows of that group whose Status is not unavailable (for a date: of those
\* created by that date).
C19_DenominatorsSkipUnavailable ==
    Ready =>
        /\ \A msg \in StatusMessages :
              \A l \in get_status(db, msg).report.lines :
                  IF msg.diff
                  THEN /\ l.start_total
                            = Counted(db, <<msg.dates[1]>>, l.group, l.key)
                       /\ l.end_total
                            = Counted(db, <<msg.dates[2]>>, l.group, l.key)
                  ELSE l.total = Counted(db, msg.dates, l.group, l.key)
        /\ \A i \in 1..Len(db) :
              \A l \in status_delta(db, db[i].Year, db[i].CoinValue,
                                    db[i].Country).report.lines :
                  l.total = Counted(db, NoDate, l.group, l.key)

\* a status report was sent from a ledger whose only 1 cent coin is
\* unavailable: the report counts fewer coins than the ledger has rows, and
\* none of 1 cent
C19_Witness ==
    /\ out.kind = "status"
    /\ out.text = "report"
    /\ \E i \in 1..Len(db) :
          db[i].Status = "unavailable" /\ db[i].CoinValue = "1 cent"
    /\ \E l \in out.lines :
          l.group = "Total" /\ l.total > 0 /\ l.total < Len(db)
    /\ \E l \in out.lines :
          l.group = "Value" /\ l.key = "1 cent" /\ l.total = 0

\* the eight markers, from the full collection down to the empty one
Markers ==
    <<"check", "green", "yellow", "orange", "red", "brown", "black", "cross">>

\* the ratio f lies in the k-th bucket: 100%, from 75%, from 60%, from 45%,
\* from 30%, from 15%, above 0%, exactly 0%
InBucket(f, k) ==
    LET p == 100 * f.num
        d == f.den
    IN  CASE k = 1 -> p = 100 * d
          [] k = 2 -> 75 * d <= p /\ p < 100 * d
          [] k = 3 -> 60 * d <= p /\ p < 75 * d
          [] k = 4 -> 45 * d <= p /\ p < 60 * d
          [] k = 5 -> 30 * d <= p /\ p < 45 * d
          [] k = 6 -> 15 * d <= p /\ p < 30 * d
          [] k = 7 -> 0 < p /\ p < 15 * d
          [] k = 8 -> p = 0

Rank(marker) == CHOOSE k \in 1..Len(Markers) : Markers[k] = marker

Countries == {"france", "germany"}

\* the rows of a country in the ledger as it stood on day D
CountryAsOf(rows, country, D) ==
    SelectSeq(AsOf(Available(rows), D), LAMBDA r : r.Country = country)

\* between D1 and D2 exactly one coin of the country went from missing to
\* collected and nothing else changed about the country
OneCollected(rows, country, D1, D2) ==
    LET old == CountryAsOf(rows, country, D1)
        new == CountryAsOf(rows, country, D2)
    IN  /\ D1 < D2
        /\ Len(old) = Len(new)
        /\ \E i \in 1..Len(old) :
              /\ old[i].Status = "missing"
              /\ new[i].Status = "collected"
              /\ \A j \in 1..Len(old) : j # i => old[j].Status = new[j].Status

\* the difference report has the line of a country with a ratio that grew
\* by exactly one n-th, and the increase marker
GrewByOneNth(report, country, n) ==
    \E l \in report.lines :
        /\ l.group = "Country"
        /\ l.key = country
        /\ l.marker = "increase"
        /\ (l.end_collected * l.start_total
               - l.start_collected * l.end_total) * n
              = l.start_total * l.end_total

\* C21 as stated: whenever exactly one coin of a country went from missing
\* to collected between D1 and D2 and nothing else changed about that
\* country, "status diff D1 D2" reports for that country a ratio that grew
\* by exactly 1/n, n the number of the country's coins, with the increase
\* marker.
C21_OneCollectionIsOneNth ==
    Ready =>
        \A D1 \in RequestDates, D2 \in RequestDates, c \in Countries :
            OneCollected(db, c, D1, D2)
                => LET r == get_status(db, [diff |-> TRUE,
                                            dates |-> <<D1, D2>>]).report
                   IN  /\ r.text = "report"
                       /\ GrewByOneNth(r, c, Len(CountryAsOf(db, c, D1)))

\* C21, for the reports that are sent: the line of such a country shows a
\* ratio that grew by exactly 1/n, with the increase marker.
C21_SentReportShowsOneNth ==
    Ready =>
        \A D1 \in RequestDates, D2 \in RequestDates, c \in Countries :
            LET r == get_status(db, [diff |-> TRUE,
                                     dates |-> <<D1, D2>>]).report
            IN  (OneCollected(db, c, D1, D2) /\ r.text = "report")
                    => GrewByOneNth(r, c, Len(CountryAsOf(db, c, D1)))

\* a difference report was sent for two days between which one of the two
\* coins of France was collected
C21_SentWitness ==
    /\ out.kind = "diff"
    /\ out.text = "report"
    /\ \E D1 \in RequestDates, D2 \in RequestDates :
          /\ OneCollected(db, "france", D1, D2)
          /\ Len(CountryAsOf(db, "france", D1)) = 2
          /\ out = get_status(db, [diff |-> TRUE,
                                   dates |-> <<D1, D2>>]).report

\* day D lies before the creation of every row
Predates(D, rows) == \A i \in 1..Len(rows) : After(rows[i].Created, D)

\* C22: a "status <date>" request for a date before the creation of every
\* row of the ledger is answered with the message "No data for this date":
\* nothing is raised and no ratio is reported.
C22_EarlyDateHasNoData ==
    Ready =>
        \A D \in RequestDates :
            Predates(D, db)
                => get_status(db, [diff |-> FALSE, dates |-> <<D>>]).report
                      = Report("status", "", "No data for this date", {})

\* the message was sent for a day of the behaviour that lies before the
\* creation of the rows of a ledger that has rows
C22_Witness ==
    /\ out = Report("status", "", "No data for this date", {})
    /\ Len(db) > 0
    /\ Predates(1, db)

\* a "status diff" request with a number of words other than four, or with
\* a word that is no date
MalformedDiff(msg) ==
    /\ msg.diff
    /\ \/ Len(msg.dates) # 2
       \/ \E i \in 1..Len(msg.dates) : msg.dates[i] \notin RequestDates

\* C23 as stated: every "status diff" request with a malformed date range
\* (wrong number of words, or words that are no dates in the format) is
\* answered with the formatting message, and nothing is raised.
C23_MalformedDiffGetsFormatMessage ==
    Ready =>
        \A msg \in StatusMessages :
            MalformedDiff(msg)
                => get_status(db, msg).report
                      = Report("diff", "", "Need request in format", {})

\* C23, for the number of words alone: a "status diff" request that does
\* not have four words is answered with the formatting message.
C23_WrongWordCountGetsFormatMessage ==
    Ready =>
        \A msg \in StatusMessages :
            (msg.diff /\ Len(msg.dates) # 2)
                => get_status(db, msg).report
                      = Report("diff", "", "Need request in format", {})

\* the number of rows of a group that are not unavailable and are collected
\* or staged
Done(rows, group, key) ==
    Cardinality({i \in 1..Len(rows) :
                    /\ rows[i].Status # "unavailable"
                    /\ InGroup(rows[i], group, key)
                    /\ rows[i].Status = "collected"})
    + Cardinality({i \in 1..Len(rows) :
                    /\ rows[i].Status # "unavailable"
                    /\ InGroup(rows[i], group, key)
                    /\ rows[i].Staged = PyTrue})

\* C28: the single-change delta of a coin that is not unavailable, on a
\* ledger without a row that is both collected and staged, has one line for
\* the whole ledger and one for each of the coin's country, year and value;
\* in each, total is the number of rows of the subset that are not
\* unavailable, before is the number of those collected or staged over
\* total, and after is one more over the same total.
C28_DeltaAddsOneCoin ==
    Ready =>
        \A i \in 1..Len(db) :
            LET r == status_delta(db, db[i].Year, db[i].CoinValue,
                                  db[i].Country).report
                groups == {<<"Total", "">>, <<"Country", db[i].Country>>,
                           <<"Year", ToString(db[i].Year)>>,
                           <<"Value", db[i].CoinValue>>}
            IN  (/\ db[i].Status # "unavailable"
                 /\ \A j \in 1..Len(db) :
                       ~(db[j].Status = "collected" /\ db[j].Staged = PyTrue))
                    => /\ r.text = "report"
                       /\ {<<l.group, l.key>> : l \in r.lines} = groups
                       /\ Cardinality(r.lines) = Cardinality(groups)
                       /\ \A l \in r.lines :
                             /\ l.total = Counted(db, NoDate, l.group, l.key)
                             /\ l.before = Done(db, l.group, l.key)
                             /\ l.after = l.before + 1

\* a delta was sent from a ledger with a staged coin, a collected coin and
\* an unavailable coin
C28_Witness ==
    /\ out.kind = "delta"
    /\ out.text = "report"
    /\ \E i \in 1..Len(db) : db[i].Staged = PyTrue
    /\ \E i \in 1..Len(db) : db[i].Status = "collected"
    /\ \E i \in 1..Len(db) : db[i].Status = "unavailable"
    /\ \E l \in out.lines :
          l.group = "Total" /\ l.before = 2 /\ l.after = 3 /\ l.total = 2

-----------------------------------------------------------------------------
(* The cases of a reconciliation pass.                                      *)

\* the two pairs of previous and decoded Status that align accepts
Accepted(old, new) ==
    new = old \/ (new = "collected" /\ old # "collected")

\* the order unavailable, missing, collected; the Status of a fill that is
\* none of the three colours ("unknown") is not collected and stands with
\* the first
StatusRank(st) ==
    CASE st = "unavailable" -> 0
      [] st = "missing"     -> 1
      [] st = "collected"   -> 2
      [] OTHER              -> 0

\* every decoded row with exactly one previous row has an accepted pair
AllAccepted(decoded, latest_df) ==
    \A i \in 1..Len(decoded) :
        LET m == Previous(latest_df, decoded[i])
        IN  Len(m) = 1 => Accepted(m[1].Status, decoded[i].Status)

\* no row with exactly one previous row has a Status behind the previous one
NoneWentBack(latest_df, result) ==
    \A i \in 1..Len(result) :
        LET m == Previous(latest_df, result[i])
        IN  Len(m) = 1
               => StatusRank(m[1].Status) <= StatusRank(result[i].Status)

NewRowsCreatedToday(decoded, latest_df, result, day) ==
    \A i \in 1..Len(decoded) :
        Len(Previous(latest_df, decoded[i])) = 0
            => /\ result[i].Created = DateStr(day)
               /\ result[i].Collected = NA
               /\ result[i].Status = decoded[i].Status

\* C26: a pass that succeeds gives every decoded row that has no previous
\* row of its identity key today as Created, no Collected date and the
\* decoded Status; and a pass raises only over a row that has exactly one
\* previous row, never over a new one.
C26_NewRowIsCreatedToday ==
    [][/\ (AlignStep /\ reload' = "aligned")
            => NewRowsCreatedToday(newdf, read_csv(csv), newdf', today)
       /\ (AlignStep /\ reload' = "align_raised")
            => \E i \in 1..Len(newdf) :
                  Len(Previous(read_csv(csv), newdf[i])) = 1
       /\ ConstructStep
            => NewRowsCreatedToday(Decode(sheet), read_csv(csv), db',
                                   today)]_vars

\* a pass succeeded on a document with a coin that is new and collected,
\* next to a coin the snapshot knows
C26_Witness ==
    /\ reload = "aligned"
    /\ \E i \in 1..Len(newdf) :
          /\ Len(Previous(read_csv(csv), newdf[i])) = 0
          /\ newdf[i].Status = "collected"
          /\ newdf[i].Created = DateStr(today)
          /\ newdf[i].Collected = NA
    /\ \E i \in 1..Len(newdf) :
          /\ Len(Previous(read_csv(csv), newdf[i])) = 1
          /\ newdf[i].Created # DateStr(today)

\* the rows with more than one previous row come out created today
DuplicatesCreatedToday(decoded, latest_df, result, day) ==
    \A i \in 1..Len(decoded) :
        Len(Previous(latest_df, decoded[i])) > 1
            => /\ result[i].Created = DateStr(day)
               /\ result[i].Status = decoded[i].Status

\* C27 as stated: a pass that meets a decoded row with more than one
\* previous row of its identity key is not aborted over it and leaves the
\* row with the decoded Status and today as Created.
C27_DuplicateRowIsCreatedToday ==
    [][(AlignStep /\ AllAccepted(newdf, read_csv(csv)))
          => /\ reload' = "aligned"
             /\ DuplicatesCreatedToday(newdf, read_csv(csv), newdf',
                                       today)]_vars

\* C27, without the date: the pass is not aborted over such a row, which
\* comes out with the decoded Status and neither date, and every row with
\* one previous row carries that row's Created.
C27_DuplicateRowIsSkipped ==
    [][(AlignStep /\ AllAccepted(newdf, read_csv(csv)))
          => /\ reload' = "aligned"
             /\ \A i \in 1..Len(newdf) :
                   LET m == Previous(read_csv(csv), newdf[i])
                   IN  /\ Len(m) > 1
                          => /\ newdf'[i].Created = NA
                             /\ newdf'[i].Collected = NA
                             /\ newdf'[i].Status = newdf[i].Status
                       /\ Len(m) = 1
                          => newdf'[i].Created = m[1].Created]_vars

\* C29: no two rows of the ledger the handlers read have the same identity
\* key.
C29_IdentityKeyIsUnique ==
    proc = "up" =>
        \A i \in 1..Len(db), j \in 1..Len(db) :
            i # j => KeyOf(db[i]) # KeyOf(db[j])

-----------------------------------------------------------------------------
(* The decoders.                                                            *)

\* a block without country marker, without year markers, with too few rows
\* or not on the rows the decoder reads
Corrupt(layout) ==
    \/ ~layout.country
    \/ layout.years = 0
    \/ layout.rows < (IF layout.sheet = "EU" THEN 10 ELSE 58)
    \/ layout.at # 0

\* C24 as stated: a sheet without country marker, without year markers or
\* with wrong row counts makes its decoder raise.
C24_CorruptSheetFailsToDecode ==
    out.kind = "decode" =>
        \A l \in out.lines : Corrupt(l.layout) => out.error # ""

\* C24, for the sheets that are too short alone: a sheet of coin blocks
\* that ends before the last row of coin values of a block with a country
\* and year markers makes its decoder raise IndexError.
C24_ShortSheetFailsToDecode ==
    out.kind = "decode" =>
        \A l \in out.lines :
            (/\ l.layout.rows > l.layout.at + 1
             /\ l.layout.rows < (IF l.layout.sheet = "EU" THEN 10 ELSE 58)
             /\ l.layout.sheet = "EU" => l.layout.country /\ l.layout.years > 0)
                => out.error = "IndexError"

\* the Amount the three decoders are said to give for a cell
AmountAsStated(value) ==
    IF value \in Placeholders THEN 0
    ELSE IF value.type = "int" THEN value.num \div 1000
    ELSE IF value.type = "float" THEN value.num \div (1000 * 1000)
    ELSE IF value \in Digits THEN value.num \div 1000
    ELSE 0 - 1

\* C30 as stated: each of the three decoders gives, without raising, the
\* numeric value of the cell divided by 1000, 0 for an empty cell, "---"
\* and "???", and -1 for every other value that is no number; so the
\* Amount is -1 or not negative.
C30_AmountIsThousandsOrSentinel ==
    out.kind = "amount" =>
        /\ out.error = ""
        /\ \A l \in out.lines :
              /\ l.value.num >= 0 => l.amount = AmountAsStated(l.value)
              /\ l.amount >= 0 \/ l.amount = 0 - 1

\* C30, for the EU and Deutschland sheets and the cells that hold no
\* negative number: an int or a str of digits gives its value divided by
\* 1000 without the remainder, an empty cell, "---" and "???" give 0, and
\* every other value, a float included, gives -1.
C30_BlockAmountIsThousandsOrSentinel ==
    (out.kind = "amount" /\ out.text # "Sondermuenzen") =>
        /\ out.error = ""
        /\ \A l \in out.lines :
              l.value.num >= 0 =>
                 l.amount = IF l.value.type = "float" THEN 0 - 1
                            ELSE AmountAsStated(l.value)

-----------------------------------------------------------------------------
(* Staging and the reloads.                                                 *)

\* C31: in the result of a reconciliation pass that succeeds, every row
\* whose one previous row in the snapshot is staged with a collector, and
\* whose decoded Status is not collected, is staged with that collector.
C31_ReloadKeepsStaging ==
    [][(AlignStep /\ reload' = "aligned") =>
          \A i \in 1..Len(newdf') :
              LET m == Previous(read_csv(csv), newdf'[i])
              IN  (/\ Len(m) = 1
                   /\ m[1].Staged = PyTrue
                   /\ m[1].Collector # NA
                   /\ newdf'[i].Status # "collected")
                     => /\ newdf'[i].Staged = PyTrue
                        /\ newdf'[i].Collector = m[1].Collector]_vars

\* the row of the coin of the button, in a decoded ledger
Held(df) ==
    {i \in 1..Len(df) :
        KeyOf(df[i]) = KeyOf(DecodeRow([j \in 1..NumCells |-> White],
                                       HeldCell))}

\* stage_coin returns after it has written "missing" over the Status of the
\* row it found unavailable, the cell of the coin being black
PromotionReturns ==
    /\ StageReturnStep
    /\ ~stage.raced
    /\ Found.Status = "unavailable"
    /\ db[stage.idx].Status = "missing"
    /\ sheet[HeldCell] = Black

\* C32: when stage_coin returns after it has turned an unavailable row to
\* missing, the snapshot it has written is one against which a
\* reconciliation pass over the document as it is, the cell of the coin
\* still black, does not raise on the row of the coin.
C32_PromotedRowReconciles ==
    [][PromotionReturns =>
          \A i \in Held(Decode(sheet)) :
              ~AlignRaises(Decode(sheet)[i], read_csv(csv'))]_vars

\* a pass of the timer thread has raised on the row of the coin: its cell
\* is black, and its one row in the snapshot is staged and missing
C32_RaisedOnPromoted ==
    /\ reload = "align_raised"
    /\ filepath[HeldCell] = Black
    /\ \E i \in Held(newdf) :
          LET m == Previous(read_csv(csv), newdf[i])
          IN  /\ newdf[i].Status = "unavailable"
              /\ Len(m) = 1
              /\ m[1].Staged = PyTrue
              /\ m[1].Status = "missing"
              /\ AlignRaises(newdf[i], read_csv(csv))

\* the dates of a row of the snapshot are those of the row of the result
KeptDates(old, new) ==
    /\ old.Created # NA => new.Created = old.Created
    /\ (old.Collected # NA /\ new.Status = "collected")
          => new.Collected = old.Collected

\* C33: a reconciliation pass that succeeds gives every row the Created
\* date that a row of its identity key has in the snapshot, and, when the
\* row is decoded as collected, the Collected date that row has; the writes
\* of stage_coin change no Created and no Collected date of the ledger.
C33_ProvenanceIsWriteOnce ==
    [][/\ (AlignStep /\ reload' = "aligned") =>
             \A i \in 1..Len(newdf') :
                 LET m == Previous(read_csv(csv), newdf'[i])
                 IN  \A k \in 1..Len(m) : KeptDates(m[k], newdf'[i])
       /\ StageWriteStep =>
             \A i \in 1..Len(db) :
                 /\ db'[i].Created = db[i].Created
                 /\ db'[i].Collected = db[i].Collected]_vars

\* C33, for the rows with one row of their identity key in the snapshot
\* and a Collected date that stage_coin has not left on a row it turned to
\* missing: the pass keeps the Created date, and the Collected date of a
\* row that was and is collected; stage_coin changes neither.
C33_ProvenanceIsWriteOnceOnUniqueKeys ==
    [][/\ (AlignStep /\ reload' = "aligned") =>
             \A i \in 1..Len(newdf') :
                 LET m == Previous(read_csv(csv), newdf'[i])
                 IN  (Len(m) = 1 /\ (m[1].Collected # NA
                                       => m[1].Status = "collected"))
                        => KeptDates(m[1], newdf'[i])
       /\ StageWriteStep =>
             \A i \in 1..Len(db) :
                 /\ db'[i].Created = db[i].Created
                 /\ db'[i].Collected = db[i].Collected]_vars

\* C34: every write of stage_coin to the ledger the handlers read, whether
\* or not a reload has put another ledger in place since the lookup, goes
\* to a row that the lookup of the requested coin finds in that ledger.
C34_WritesGoToTheRequestedCoin ==
    [][StageWriteStep =>
          \A i \in 1..Len(db) :
              db'[i] # db[i] => i \in row_indexes(db, Requested)]_vars

\* C34, with no reload putting another ledger in place while stage_coin
\* runs: every write goes to the one row the lookup found.
C34_SerializedWritesGoToTheRequestedCoin ==
    [][(StageWriteStep /\ ~stage.raced) =>
          \A i \in 1..Len(db) :
              db'[i] # db[i]
                 => (i = stage.idx /\ row_indexes(db, Requested) = {i})]_vars

\* C35: whenever the process runs and neither a reload nor a stage_coin is
\* under way, the snapshot file reads back as the ledger the handlers read.
C35_SnapshotIsTheLedger ==
    (proc = "up" /\ ~ReloadActive /\ ~StageActive) => read_csv(csv) = db

\* C35, as long as no stage button has been sent, so that no stage_coin has
\* run: between two reloads the snapshot file reads back as the ledger.
C35_SnapshotIsTheLedgerBeforeAnyStaging ==
    (proc = "up" /\ ~ReloadActive /\ ~prefs.button) => read_csv(csv) = db

\* C36: in the delta that stage_coin sends after its writes, no reload
\* having put another ledger in place meanwhile, the ratio before is, for
\* each of the four subsets, the ratio of collected or staged coins in the
\* ledger as stage_coin found it, and the ratio after is at most 1.
C36_DeltaCountsTheStagedCoinOnce ==
    [][(StageReturnStep /\ ~stage.raced /\ out'.text = "report") =>
          \A l \in out'.lines :
              /\ l.before * Counted(stage.prior, NoDate, l.group, l.key)
                    = Done(stage.prior, l.group, l.key) * l.total
              /\ l.after <= l.total]_vars

\* C36, as the delta is: the ratio before counts the collected and staged
\* coins of the ledger with the coin already staged, and the ratio after
\* counts one more.
C36_DeltaCountsTheStagedCoinTwice ==
    [][(StageReturnStep /\ ~stage.raced /\ out'.text = "report") =>
          \A l \in out'.lines :
              /\ l.total = Counted(db, NoDate, l.group, l.key)
              /\ l.before = Done(db, l.group, l.key)
              /\ l.before >= 1
              /\ l.after = l.before + 1]_vars

\* stage_coin has sent a delta with a ratio after of 2 coins out of 1
C36_AboveOne ==
    /\ out.kind = "delta"
    /\ \E l \in out.lines : l.after = 2 /\ l.total = 1

-----------------------------------------------------------------------------
(* The session and the timer.                                               *)

\* C37: whenever stage_coin is about to read the username of the session
\* (line 759), the session holds one.
C37_UsernameIsSetBeforeStaging ==
    stage.pc = "staged" => prefs.username # NA

\* a step of the timer thread that ends a cycle of reload_data, by its
\* return or by an exception
CycleEnds ==
    /\ proc = "up"
    /\ reload' # reload
    /\ reload' \in {"wait", "fetch_raised", "align_raised"}

\* C38 as stated: at most one reload timer is pending at any time, no two
\* cycles of reload_data run at once, and every cycle of reload_data starts
\* exactly one timer for its successor, after its own download, decoding,
\* reconciliation and swap: when a cycle ends, one timer is pending.
C38_EachPassStartsOneSuccessor ==
    [][/\ timers' \in {0, 1}
       /\ ReloadActive' => timers' = 0
       /\ CycleEnds => timers' = 1]_vars

\* C38, for the number of timers alone: at most one timer is pending at
\* any time; none is pending before run has started the first, nor while
\* a cycle of reload_data is between its download and its assignment to
\* self.db, so that no second cycle starts before the first has ended.
C38_OneTimerOnePass ==
    /\ timers \in {0, 1}
    /\ proc = "down" => (timers = 0 /\ reload = "off")
    /\ ReloadActive => timers = 0

\* a cycle has downloaded, decoded, reconciled and saved, and is about to
\* put its ledger in place: no timer is pending
C38_Witness ==
    /\ proc = "up"
    /\ reload = "saved"
    /\ timers = 0
    /\ newdf # db

\* C38, for the cycles that return: a timer is started only by run and by
\* the last step of a cycle, one at a time, and a cycle that returns leaves
\* one timer pending.
C38_TimerStartedAtTheEndOfAPass ==
    [][/\ timers' > timers =>
             /\ timers' = timers + 1
             /\ ConstructStep \/ (reload = "saved" /\ reload' = "wait")
       /\ (reload # "wait" /\ reload' = "wait") => timers' = 1]_vars


\* a request whose date words are dates in the format: "status" with any
\* number of such words, and "status diff" with any number of them
WellFormed(msg) == \A i \in 1..Len(msg.dates) : msg.dates[i] \in RequestDates

\* C39 as stated: on every ledger, get_status raises nothing on a
\* well-formed request: a report text is returned for "status" followed by
\* any number of words, for "status <date>" when rows exist at the date
\* but none is a special coin, and for "status diff <date> <date>" when the
\* first date lies before every row or a year or country has rows only at
\* the second date.
C39_StatusNeverRaises ==
    Ready =>
        \A msg \in StatusMessages :
            WellFormed(msg) => get_status(db, msg).report.error = ""

\* C39, for the requests that are answered: "status" alone or with one
\* date returns a text when the view has no row or has a special coin, and
\* "status diff" with two dates returns one when both views have a special
\* coin and every year and country of the second view is in the first.
C39_AnsweredRequests ==
    Ready =>
        \A msg \in StatusMessages :
            WellFormed(msg) =>
                LET r == get_status(db, msg).report
                    view(k) == get_db_for_date(db, strptime(msg.dates[k])).view
                    now == get_db_for_date(db, NoDate).view
                    special(v) == Count(v, "Special", TRUE) > 0
                IN  CASE ~msg.diff /\ Len(msg.dates) = 0 ->
                           (Len(now) = 0 \/ special(now)) => r.error = ""
                      [] ~msg.diff /\ Len(msg.dates) = 1 ->
                           (Len(view(1)) = 0 \/ special(view(1)))
                               => r.error = ""
                      [] msg.diff /\ Len(msg.dates) = 2 ->
                           (/\ special(view(1))
                            /\ special(view(2))
                            /\ Groups(view(2)) \subseteq Groups(view(1)))
                               => r.error = ""
                      [] msg.diff -> r.text = "Need request in format"
                      [] OTHER -> TRUE

\* a "status" request with two more words was taken and ended in an error
C39_Raised ==
    /\ out.kind = "status"
    /\ out.error = "UnboundLocalError"

====
